---- MODULE Spec2Model ----
(***************************************************************************)
(* Model of TS_DCOPF_RA_Problem                                            *)
(* (src/gridopt/stochastic/two_stage_DCOPF/problem_risk.py): the           *)
(* risk-averse two-stage DC-OPF problem, its per-scenario evaluator        *)
(* eval_FG, the Monte Carlo estimators eval_EFG_sequential / eval_EFG, the *)
(* projections, and the cached Lagrangian-relaxed problem with its         *)
(* objective evaluator.                                                    *)
(*                                                                         *)
(* Real numbers are exact rationals <<n, d>> in lowest terms with d > 0;   *)
(* vectors are sequences of rationals.  Floating-point rounding is not     *)
(* modelled.                                                               *)
(***************************************************************************)
EXTENDS Integers, Sequences, FiniteSets, TLC

----------------------------------------------------------------------------
(* Rational arithmetic *)

Abs(n) == IF n < 0 THEN -n ELSE n

RECURSIVE GCD(_, _)
GCD(a, b) == IF b = 0 THEN a ELSE GCD(b, a % b)

\* n/d in lowest terms, d > 0
Rat(n, d) ==
    LET s == IF d < 0 THEN -1 ELSE 1
        g == GCD(Abs(n), Abs(d))
    IN  <<(s * n) \div g, (s * d) \div g>>

RInt(n) == <<n, 1>>
RZero == <<0, 1>>
ROne == <<1, 1>>
RAdd(a, b) == Rat(a[1] * b[2] + b[1] * a[2], a[2] * b[2])
RSub(a, b) == Rat(a[1] * b[2] - b[1] * a[2], a[2] * b[2])
RMul(a, b) == Rat(a[1] * b[1], a[2] * b[2])
RDiv(a, b) == Rat(a[1] * b[2], a[2] * b[1])
RNeg(a) == <<-a[1], a[2]>>
RLe(a, b) == a[1] * b[2] <= b[1] * a[2]
RLt(a, b) == a[1] * b[2] < b[1] * a[2]
RGe(a, b) == RLe(b, a)
\* np.maximum / np.minimum on scalars
RMaximum(a, b) == IF RLe(a, b) THEN b ELSE a
RMinimum(a, b) == IF RLe(a, b) THEN a ELSE b

(* Vectors (numpy 1-d arrays) *)
VZeros(n) == [i \in 1..n |-> RZero]
VAdd(a, b) == [i \in 1..Len(a) |-> RAdd(a[i], b[i])]
VSub(a, b) == [i \in 1..Len(a) |-> RSub(a[i], b[i])]
VScale(c, a) == [i \in 1..Len(a) |-> RMul(c, a[i])]

RECURSIVE RSumTo(_, _)
RSumTo(a, n) == IF n = 0 THEN RZero ELSE RAdd(RSumTo(a, n - 1), a[n])
RSum(a) == RSumTo(a, Len(a))

Dot(a, b) == RSum([i \in 1..Len(a) |-> RMul(a[i], b[i])])
\* M*v for a matrix given as a sequence of rows
MatVec(M, v) == [i \in 1..Len(M) |-> Dot(M[i], v)]
\* x[:-1] and x[-1]
Front(x) == SubSeq(x, 1, Len(x) - 1)
Last(x) == x[Len(x)]

\* Python's None, as a record so that it compares with the objects it stands in for
None == [none |-> TRUE]
\* None passed where a vector is optional
NoVector == <<>>

----------------------------------------------------------------------------
(* The collaborator self.ts_dcopf (TS_DCOPF_Problem): network data of a    *)
(* small fixture with 2 generators, 2 bus angles, 1 renewable source and   *)
(* 3 branches.                                                             *)

net ==
    [num_p |-> 2, num_w |-> 2, num_r |-> 1, num_bus |-> 3, num_br |-> 3,
     H0 |-> <<<<RInt(2), RZero>>, <<RZero, RInt(2)>>>>,
     g0 |-> <<ROne, ROne>>,
     H1 |-> <<<<RInt(2), RZero>>, <<RZero, RInt(4)>>>>,
     g1 |-> <<ROne, RInt(2)>>,
     p_min |-> <<RZero, RZero>>,
     p_max |-> <<RInt(4), RInt(4)>>,
     z_min |-> <<RInt(-5), RInt(-5), RInt(-5)>>,
     z_max |-> <<RInt(5), RInt(5), RInt(5)>>,
     Er |-> <<RInt(2)>>,
     b |-> <<RInt(5), RInt(4), RInt(4)>>,
     load |-> RInt(13),
     infinity |-> RInt(1000)]

\* ts_dcopf.get_problem_for_Q(p, r): a fresh mutable recourse subproblem over
\* (q, w, s, z); only the renewable-bound slice u[num_p+num_w : num_p+num_w+num_r]
\* depends on r.  A is the power-balance and branch-flow system
\* [G -A R 0; 0 J 0 -I] (its shape is kept), b its right-hand side.
get_problem_for_Q(p, r) ==
    [A |-> [rows |-> net.num_bus + net.num_br,
            cols |-> net.num_p + net.num_w + net.num_r + net.num_br],
     b |-> <<RSub(net.load, RSum(p))>> \o VZeros(net.num_bus - 1 + net.num_br),
     l |-> VSub(net.p_min, p) \o [i \in 1..net.num_w |-> RNeg(net.infinity)]
             \o VZeros(net.num_r) \o net.z_min,
     u |-> VSub(net.p_max, p) \o [i \in 1..net.num_w |-> net.infinity]
             \o r \o net.z_max]

\* the slice u[num_p+num_w : num_p+num_w+num_r] of a recourse subproblem
RSlice(u) == SubSeq(u, net.num_p + net.num_w + 1, net.num_p + net.num_w + net.num_r)

\* ts_dcopf.eval_Q(p, w, problem): optimal recourse cost and a subgradient in p.
\* With problem given, the renewable bound is the one stored in problem.u.
\* The cost is the unit-price shortfall of load over p and the usable renewables.
eval_Q(p, w, problem) ==
    \* without a problem one is built for w, whose bound slice is then w
    LET bound == IF problem = None THEN w ELSE RSlice(problem.u)
        short == RSub(RSub(net.load, RSum(p)), RSum(bound))
    IN  IF RLt(RZero, short)
        THEN [Q |-> short, gQ |-> [i \in 1..net.num_p |-> RInt(-1)]]
        ELSE [Q |-> RZero, gQ |-> VZeros(net.num_p)]

\* ts_dcopf.project_x(p): clip p to [p_min, p_max]
ts_project_x(p) ==
    [i \in 1..Len(p) |-> RMaximum(RMinimum(p[i], net.p_max[i]), net.p_min[i])]

----------------------------------------------------------------------------
(* State of one TS_DCOPF_RA_Problem instance *)

VARIABLES
    parameters,               \* self.parameters
    Qref, Qmax,               \* self.Qref, self.Qmax
    temp_x,                   \* self.temp_x (scratch vector of eval_FG)
    JG_const,                 \* self.JG_const
    Lrelaxed_approx_problem,  \* self.Lrelaxed_approx_problem (None or the cached problem)
    ret,                      \* what the last completed public call returned
    efg,                      \* the eval_EFG / eval_EFG_sequential call in progress
    runs,                     \* the executions of eval_EFG_sequential of that call
    recourse,                 \* per address space, the recourse subproblem in use
    built,                    \* history: the structural systems built so far, in order
    evaluated,                \* phi, gphi, Hphi as the last problem.eval(x) left them
    solve                     \* the solve_Lrelaxed_approx call in progress

configVars == <<parameters, Qref, Qmax>>
cacheVars == <<Lrelaxed_approx_problem, built, evaluated, solve>>
efgVars == <<efg, runs, recourse>>
vars == <<parameters, Qref, Qmax, temp_x, JG_const, Lrelaxed_approx_problem, ret,
          efg, runs, recourse, built, evaluated, solve>>

\* the largest num_procs and num_samples the model configures
MaxProcs == 2
MaxSamples == 3

NoRun == [pc |-> "none"]

\* TS_DCOPF_RA_Problem.parameters (class attribute); every value is held as a
\* rational (debug: 0 is False, 1 is True)
default_parameters ==
    [lam_max |-> RInt(100), smax_param |-> RInt(100), t_reg |-> Rat(1, 100000000),
     t_min |-> Rat(-1, 10), t_max |-> RZero, Qfac |-> Rat(4, 5),
     gamma |-> Rat(19, 20), num_samples |-> RInt(1000), num_procs |-> RInt(10),
     tol |-> Rat(1, 10000), debug |-> RZero]

\* the parameters after set_parameters(params): known keys are overwritten,
\* unknown keys are ignored
updated_parameters(old, params) ==
    [k \in DOMAIN old |-> IF k \in DOMAIN params THEN params[k] ELSE old[k]]

\* every dict that gives each key of keys one of its values in vals
Dicts(keys, vals) == [keys -> UNION {vals[k] : k \in keys}] \cap
                     {d \in [keys -> UNION {vals[k] : k \in keys}] :
                          \A k \in keys : d[k] \in vals[k]}

\* __init__(net, parameters) with the certainty-equivalent baseline giving qref
Constructed(params, qref) ==
    LET ps == updated_parameters(default_parameters, params)
    IN  /\ parameters = ps
        /\ Qref = qref
        /\ Qmax = RMul(ps.Qfac, qref)
        /\ temp_x = VZeros(net.num_p + 1)
        /\ JG_const = VZeros(net.num_p) \o <<RSub(ROne, ps.gamma)>>
        /\ Lrelaxed_approx_problem = None
        /\ ret = [op |-> "__init__"]
        /\ efg = [pc |-> "idle"]
        /\ runs = [i \in 0..(MaxProcs - 1) |-> NoRun]
        /\ recourse = [a \in 0..MaxProcs |-> None]
        /\ built = <<>>
        /\ evaluated = None
        /\ solve = [pc |-> "idle"]

\* a setter that also refreshes Qmax from the new Qfac
set_parameters_refreshing_Qmax(params) ==
    /\ efg.pc = "idle"
    /\ solve.pc = "idle"
    /\ parameters' = updated_parameters(parameters, params)
    /\ Qmax' = RMul(updated_parameters(parameters, params).Qfac, Qref)
    /\ ret' = [op |-> "set_parameters"]
    /\ UNCHANGED <<Qref, temp_x, JG_const, cacheVars, efgVars>>

set_parameters(params) ==
    /\ efg.pc = "idle"
    /\ solve.pc = "idle"
    /\ parameters' = updated_parameters(parameters, params)
    /\ ret' = [op |-> "set_parameters"]
    /\ UNCHANGED <<Qref, Qmax, temp_x, JG_const, cacheVars, efgVars>>

\* the hinge left out:  G = sigma + (1.-gamma)*t
hinge_G_no_hinge(sigma, gamma, t) ==
    RAdd(sigma, RMul(RSub(ROne, gamma), t))

\* G = np.maximum(sigma, 0.) + (1.-gamma)*t
hinge_G(sigma, gamma, t) ==
    RAdd(RMaximum(sigma, RZero), RMul(RSub(ROne, gamma), t))

\* what eval_FG(x, w, problem, info=True) computes; temp_x is the new content
\* of self.temp_x
eval_FG_result(x, w, problem) ==
    LET p == Front(x)
        t == Last(x)
        gamma == parameters.gamma
        phi0 == RAdd(RMul(Rat(1, 2), Dot(p, MatVec(net.H0, p))), Dot(net.g0, p))
        gphi0 == VAdd(MatVec(net.H0, p), net.g0)
        QgQ == eval_Q(p, w, problem)
        Q == QgQ.Q
        gQ == QgQ.gQ
        sigma == RSub(RSub(Q, Qmax), t)
        active == RGe(sigma, RZero)
        new_temp_x == IF active
                      THEN gQ \o <<RAdd(RInt(-1), RSub(ROne, gamma))>>
                      ELSE temp_x
    IN  [F |-> RAdd(phi0, Q),
         gF |-> VAdd(gphi0, gQ) \o <<RZero>>,
         G |-> <<hinge_G(sigma, gamma, t)>>,
         JG |-> IF active THEN new_temp_x ELSE JG_const,
         ind |-> IF RLe(Q, Qmax) THEN ROne ELSE RZero,
         Q |-> Q, gQ |-> gQ,
         temp_x |-> new_temp_x]

\* a direct call eval_FG(x, w, info=True)
eval_FG(x, w) ==
    LET res == eval_FG_result(x, w, None)
    IN  /\ efg.pc = "idle"
        /\ solve.pc = "idle"
        /\ temp_x' = res.temp_x
        /\ ret' = [op |-> "eval_FG", x |-> x, w |-> w, F |-> res.F, gF |-> res.gF,
                   G |-> res.G, JG |-> res.JG, ind |-> res.ind,
                   Q |-> res.Q, gQ |-> res.gQ]
        /\ UNCHANGED <<configVars, JG_const, cacheVars, efgVars>>


----------------------------------------------------------------------------
(* eval_EFG_sequential and eval_EFG *)

\* the update without the old mean subtracted:  mean += value/(i+1.)
incremental_mean_no_sub(mean, value, i) ==
    RAdd(mean, RDiv(value, RInt(i + 1)))

\* the online mean update  mean += (value - mean)/(i+1.)
incremental_mean(mean, value, i) ==
    RAdd(mean, RDiv(RSub(value, mean), RInt(i + 1)))
incremental_mean_vec(mean, value, i) ==
    [j \in 1..Len(mean) |-> incremental_mean(mean[j], value[j], i)]

\* integer division in place of the ceiling
samples_per_worker_floor(num_samples, num_procs) == num_samples \div num_procs

\* int(np.ceil(float(num_samples)/float(num_procs)))
samples_per_worker(num_samples, num_procs) ==
    LET q == num_samples \div num_procs
    IN  IF q * num_procs = num_samples THEN q ELSE q + 1

\* workers that run in the caller's address space (threads of one process)
AddressSpace_shared(i) == 0

\* The address space in which worker task i of eval_EFG runs: pool.map pickles
\* the lambda, and with it self, for every task (chunksize=1), so each task works
\* on objects of its own in a pool process.  0 is the caller's address space.
AddressSpace(i) == i + 1

\* the address space of run i of the call in progress
SpaceOf(i) == IF efg.kind = "eval_EFG" THEN AddressSpace(i) ELSE 0

\* a run of eval_EFG_sequential(x, num_samples, seed, info=True) about to start
NewRun(num_samples, seed) ==
    [pc |-> "start", seed |-> seed, num |-> num_samples]

\* the call may be made only when no other call of the driver is in progress
Idle == efg.pc = "idle" /\ solve.pc = "idle"

\* a direct call eval_EFG_sequential(x, num_samples, seed, info=True)
eval_EFG_sequential_call(x, num_samples, seed) ==
    /\ Idle
    /\ efg' = [pc |-> "running", kind |-> "eval_EFG_sequential", x |-> x,
               num_procs |-> 1, num_samples |-> num_samples]
    /\ runs' = [runs EXCEPT ![0] = NewRun(num_samples, seed)]
    /\ ret' = [op |-> "pending"]
    /\ UNCHANGED <<configVars, temp_x, JG_const, cacheVars, recourse>>

\* eval_EFG(x, info=True) up to pool.map handing out its tasks (lines 258-264)
eval_EFG_call(x) ==
    LET num_procs == parameters.num_procs[1]
        num_samples == parameters.num_samples[1]
        num == samples_per_worker(num_samples, num_procs)
    IN  /\ Idle
        /\ efg' = [pc |-> "running", kind |-> "eval_EFG", x |-> x,
                   num_procs |-> num_procs, num_samples |-> num_samples]
        /\ runs' = [i \in DOMAIN runs |->
                      IF i \in 0..(num_procs - 1) THEN NewRun(num, i) ELSE NoRun]
        /\ ret' = [op |-> "pending"]
        /\ UNCHANGED <<configVars, temp_x, JG_const, cacheVars, recourse>>

\* run i: seeding, the zero accumulators and the second stage problem
\* (lines 212-233); with num_samples = 0 the loop body never runs
sequential_begin(i) ==
    LET n == Len(efg.x)
        a == SpaceOf(i)
    IN  /\ efg.pc = "running"
        /\ runs[i].pc = "start"
        /\ recourse' = [recourse EXCEPT
                          ![a] = get_problem_for_Q(Front(efg.x), net.Er)]
        /\ runs' = [runs EXCEPT ![i] =
               [pc |-> IF runs[i].num = 0 THEN "done" ELSE "loop",
                seed |-> runs[i].seed, num |-> runs[i].num, i |-> 0,
                r |-> <<>>, problems |-> 1,
                ind |-> RZero, F |-> RZero, gF |-> VZeros(n), G |-> VZeros(1),
                JG |-> VZeros(n), hist |-> <<>>]]
        /\ UNCHANGED <<configVars, temp_x, JG_const, cacheVars, ret, efg>>

\* the slice assignment, writing one position too low
with_bound_shifted(problem, r) ==
    LET lo == net.num_p + net.num_w - 1
    IN  [problem EXCEPT !.u =
            [j \in 1..Len(problem.u) |->
                IF j > lo /\ j <= lo + net.num_r THEN r[j - lo] ELSE problem.u[j]]]

\* problem.u[num_p+num_w : num_p+num_w+num_r] = r
with_bound(problem, r) ==
    LET lo == net.num_p + net.num_w
    IN  [problem EXCEPT !.u =
            [j \in 1..Len(problem.u) |->
                IF j > lo /\ j <= lo + net.num_r THEN r[j - lo] ELSE problem.u[j]]]

\* run i, lines 238-240: draw r and write it into the bound slice
loop_sample(i, r) ==
    LET a == SpaceOf(i)
    IN  /\ efg.pc = "running"
        /\ runs[i].pc = "loop"
        /\ recourse' = [recourse EXCEPT ![a] = with_bound(recourse[a], r)]
        /\ runs' = [runs EXCEPT ![i].pc = "sampled", ![i].r = r]
        /\ UNCHANGED <<configVars, temp_x, JG_const, cacheVars, ret, efg>>

\* run i, lines 242-249: evaluate the sample on the run's problem and update
\* the running means; after the last iteration the run has its result
loop_update(i) ==
    LET a == SpaceOf(i)
        run == runs[i]
        res == eval_FG_result(efg.x, run.r, recourse[a])
        k == run.i
    IN  /\ efg.pc = "running"
        /\ run.pc = "sampled"
        /\ runs' = [runs EXCEPT ![i] =
               [pc |-> IF k + 1 = run.num THEN "done" ELSE "loop",
                seed |-> run.seed, num |-> run.num, i |-> k + 1,
                r |-> run.r, problems |-> run.problems,
                ind |-> incremental_mean(run.ind, res.ind, k),
                F |-> incremental_mean(run.F, res.F, k),
                gF |-> incremental_mean_vec(run.gF, res.gF, k),
                G |-> incremental_mean_vec(run.G, res.G, k),
                JG |-> incremental_mean_vec(run.JG, res.JG, k),
                hist |-> Append(run.hist,
                                [r |-> run.r, bound |-> RSlice(recourse[a].u),
                                 ind |-> res.ind, F |-> res.F,
                                 gF |-> res.gF, G |-> res.G, JG |-> res.JG])]]
        \* the worker's self.temp_x is its own copy; a direct call writes self.temp_x
        /\ temp_x' = IF a = 0 THEN res.temp_x ELSE temp_x
        /\ UNCHANGED <<configVars, JG_const, cacheVars, ret, efg, recourse>>

\* the direct call returns F, gF, G, JG, ind of its run (lines 251-254)
eval_EFG_sequential_return ==
    /\ efg.pc = "running"
    /\ efg.kind = "eval_EFG_sequential"
    /\ runs[0].pc = "done"
    /\ ret' = [op |-> "eval_EFG_sequential", x |-> efg.x,
               num_samples |-> efg.num_samples, seed |-> runs[0].seed,
               F |-> runs[0].F, gF |-> runs[0].gF, G |-> runs[0].G,
               JG |-> runs[0].JG, ind |-> runs[0].ind, hist |-> runs[0].hist]
    /\ efg' = [pc |-> "idle"]
    /\ runs' = [i \in DOMAIN runs |-> NoRun]
    /\ recourse' = [a \in DOMAIN recourse |-> None]
    /\ UNCHANGED <<configVars, temp_x, JG_const, cacheVars>>

\* sum(vals)/float(num_procs) over the workers' results
mean_of_workers(vals, num_procs) == RDiv(RSum(vals), RInt(num_procs))
mean_of_workers_vec(vals, num_procs) ==
    [j \in 1..Len(vals[1]) |->
        mean_of_workers([w \in 1..Len(vals) |-> vals[w][j]], num_procs)]

\* eval_EFG once pool.map has every worker's result (lines 264-272)
eval_EFG_return ==
    LET n == efg.num_procs
        results == [w \in 1..n |-> runs[w - 1]]
    IN  /\ efg.pc = "running"
        /\ efg.kind = "eval_EFG"
        /\ \A i \in 0..(n - 1) : runs[i].pc = "done"
        /\ ret' = [op |-> "eval_EFG", x |-> efg.x,
                   num_procs |-> n, num_samples |-> efg.num_samples,
                   workers |-> results,
                   F |-> mean_of_workers([w \in 1..n |-> results[w].F], n),
                   gF |-> mean_of_workers_vec([w \in 1..n |-> results[w].gF], n),
                   G |-> mean_of_workers_vec([w \in 1..n |-> results[w].G], n),
                   JG |-> mean_of_workers_vec([w \in 1..n |-> results[w].JG], n),
                   ind |-> mean_of_workers([w \in 1..n |-> results[w].ind], n)]
        /\ efg' = [pc |-> "idle"]
        /\ runs' = [i \in DOMAIN runs |-> NoRun]
        /\ recourse' = [a \in DOMAIN recourse |-> None]
        /\ UNCHANGED <<configVars, temp_x, JG_const, cacheVars>>


----------------------------------------------------------------------------
(* The Lagrangian-relaxed problem: construct_Lrelaxed_approx_problem and the
   objective evaluator it binds *)

\* a builder that never finds the cache
cache_hit_never(problem) == FALSE

\* line 453: the cached problem is reused when there is one
cache_hit(problem) == problem # None

\* lines 458-475: the structural system over (p, t, q, w, s, y, z).  A is kept
\* as its block layout, the blocks being network matrices.
structure(t_min, t_max) ==
    [A |-> << <<"G", "Ont", "G", "-A", "R", "None", "None">>,
              <<"Ip", "None", "Ip", "None", "None", "-Ip", "None">>,
              <<"None", "None", "None", "J", "None", "None", "-Iz">> >>,
     b |-> net.b \o VZeros(net.num_p) \o VZeros(net.num_br),
     l |-> net.p_min \o <<t_min>> \o VAdd(VScale(RInt(-1), net.p_max), net.p_min)
             \o [i \in 1..net.num_w |-> RNeg(net.infinity)] \o VZeros(net.num_r)
             \o net.p_min \o net.z_min,
     u |-> net.p_max \o <<t_max>> \o VSub(net.p_max, net.p_min)
             \o [i \in 1..net.num_w |-> net.infinity] \o net.Er
             \o net.p_max \o net.z_max]

\* lines 485-494 and the closure of eval: lam, the corrections with their
\* defaults, and the locals of lines 414-421 that eval reads
evaluator(lam, g_corr, J_corr) ==
    [lam |-> lam,
     g_corr |-> IF g_corr = NoVector THEN VZeros(net.num_p + 1) ELSE g_corr,
     J_corr |-> IF J_corr = NoVector THEN VZeros(net.num_p + 1) ELSE J_corr,
     smax_param |-> parameters.smax_param, t_reg |-> parameters.t_reg,
     gamma |-> parameters.gamma, Qmax |-> Qmax, Qref |-> Qref]

\* a binding that takes effect only on a problem that has no evaluator yet
rebind_eval_kept(problem, ev) ==
    IF problem.eval = None THEN [problem EXCEPT !.eval = ev] ELSE problem

\* line 567: problem.eval = MethodType(eval, problem) replaces the evaluator
\* of the one problem object
rebind_eval(problem, ev) == [problem EXCEPT !.eval = ev]

\* the problem construct_Lrelaxed_approx_problem(lam, g_corr, J_corr) returns,
\* which is also self.Lrelaxed_approx_problem afterwards
constructed_problem(lam, g_corr, J_corr) ==
    LET t_max == RMul(parameters.t_max, Qref)
        t_min == RMul(parameters.t_min, Qref)
        sys == structure(t_min, t_max)
    IN  IF cache_hit(Lrelaxed_approx_problem)
        THEN rebind_eval(Lrelaxed_approx_problem, evaluator(lam, g_corr, J_corr))
        ELSE rebind_eval([id |-> Len(built) + 1, A |-> sys.A, b |-> sys.b,
                          l |-> sys.l, u |-> sys.u, eval |-> None, warm |-> None],
                         evaluator(lam, g_corr, J_corr))

\* the (id, A, b, l, u) of a problem object
StructureOf(problem) ==
    [id |-> problem.id, A |-> problem.A, b |-> problem.b, l |-> problem.l,
     u |-> problem.u]

\* the history of builds after a call of construct_Lrelaxed_approx_problem
built_after(problem) ==
    IF cache_hit(Lrelaxed_approx_problem)
    THEN built
    ELSE Append(built, StructureOf(problem))

\* a direct call construct_Lrelaxed_approx_problem(lam, g_corr, J_corr); it may
\* come while a solve is in progress
construct_Lrelaxed_approx_problem(lam, g_corr, J_corr) ==
    /\ efg.pc = "idle"
    /\ Lrelaxed_approx_problem' = constructed_problem(lam, g_corr, J_corr)
    /\ built' = built_after(constructed_problem(lam, g_corr, J_corr))
    /\ ret' = [op |-> "construct_Lrelaxed_approx_problem", lam |-> lam,
               problem |-> constructed_problem(lam, g_corr, J_corr)]
    \* history: a solve in progress has had another construct call in between
    /\ solve' = IF solve.pc = "idle" THEN solve
                ELSE [solve EXCEPT !.interleaved = TRUE]
    /\ UNCHANGED <<configVars, temp_x, JG_const, efgVars, evaluated>>


(* scipy.sparse matrices are kept as their sparsity pattern: the dimensions and
   the set of stored positions <<i, j>>, 1-based within a block, 0-based (as
   in coo .row and .col) in an assembled matrix. *)
Block(m, n, nz) == [m |-> m, n |-> n, nz |-> nz]
EmptyBlock(m, n) == Block(m, n, {})

\* the stored entries of a sparse matrix given densely: its nonzeros
PatternOf(M) ==
    Block(Len(M), Len(M[1]),
          {<<i, j>> \in (1..Len(M)) \X (1..Len(M[1])) : M[i][j] # RZero})

\* the pattern without the lower-triangle filter
tril_keep_all(nz) == nz

\* scipy.sparse.tril: the entries on and below the diagonal
tril(nz) == {e \in nz : e[1] >= e[2]}

RECURSIVE SumTo(_, _)
SumTo(dims, k) == IF k = 0 THEN 0 ELSE SumTo(dims, k - 1) + dims[k]

\* scipy.sparse.bmat(blocks, format='coo'): block row r starts at the sum of
\* the heights of the block rows above it, block column c likewise
bmat(blocks) ==
    LET R == Len(blocks)
        C == Len(blocks[1])
        height == [r \in 1..R |->
                     blocks[r][CHOOSE c \in 1..C : blocks[r][c] # None].m]
        width == [c \in 1..C |->
                     blocks[CHOOSE r \in 1..R : blocks[r][c] # None][c].n]
    IN  UNION {IF blocks[rc[1]][rc[2]] = None
               THEN {}
               ELSE {<<SumTo(height, rc[1] - 1) + e[1] - 1,
                       SumTo(width, rc[2] - 1) + e[2] - 1>> :
                         e \in blocks[rc[1]][rc[2]].nz} :
               rc \in (1..R) \X (1..C)}

\* x[offset : offset+n]
Slice(x, offset, n) == SubSeq(x, offset + 1, offset + n)

\* whether np.exp(v) is a nonzero double: exp underflows to 0.0 below about -745
ExpNonzero(v) == RLt(RInt(-745), v)

\* lines 555-564: the blocks of Hphi over (p, t, q, w, s, y, z), as patterns.
\* lamC2 tells whether lam*C2 is nonzero, gphi1 is H1*q + g1.
Hphi_blocks(t_reg, lamC2, gphi1) ==
    LET np == net.num_p
        nzq == {i \in 1..np : lamC2 /\ gphi1[i] # RZero}
        H == Block(np, np, PatternOf(net.H1).nz \cup tril(nzq \X nzq))
        tt == Block(1, 1, IF t_reg # RZero \/ lamC2 THEN {<<1, 1>>} ELSE {})
        g == Block(np, 1, {<<i, 1>> : i \in nzq})
        H0 == PatternOf(net.H0)
        Ow == EmptyBlock(net.num_w, net.num_w)
        Os == EmptyBlock(net.num_r, net.num_r)
        Op == EmptyBlock(np, np)
        Oz == EmptyBlock(net.num_br, net.num_br)
    IN  << <<H0, None, None, None, None, None, None>>,
           <<None, tt, None, None, None, None, None>>,
           <<None, g, H, None, None, None, None>>,
           <<None, None, None, Ow, None, None, None>>,
           <<None, None, None, None, Os, None, None>>,
           <<None, None, None, None, None, Op, None>>,
           <<None, None, None, None, None, None, Oz>> >>

\* eval(cls, x) with the closure ev (lines 496-565): what it leaves in
\* cls.phi, cls.gphi and cls.Hphi.  The softplus terms C1, C2 and log_term are
\* transcendental; of them the model keeps beta and whether lam*C2 is nonzero,
\* of gphi the p part, which is exact, and of Hphi the pattern.
eval_result(ev, x) ==
    LET np == net.num_p
        p == Slice(x, 0, np)
        t == x[np + 1]
        q == Slice(x, np + 1, np)
        gphi0 == VAdd(MatVec(net.H0, p), net.g0)
        phi1 == RAdd(RMul(Rat(1, 2), Dot(q, MatVec(net.H1, q))), Dot(net.g1, q))
        gphi1 == VAdd(MatVec(net.H1, q), net.g1)
        beta == RDiv(RMul(ev.smax_param, RSub(RSub(phi1, ev.Qmax), t)), ev.Qref)
        a == RMaximum(beta, RZero)
        \* ebm2a = np.exp(beta-2*a) is the numerator of C2
        lamC2 == ev.lam # RZero /\ ExpNonzero(RSub(beta, RMul(RInt(2), a)))
        eta_p == Front(ev.g_corr)
        nu_p == Front(ev.J_corr)
    IN  [x |-> x, closure |-> ev, beta |-> beta,
         gphi_p |-> VAdd(VAdd(gphi0, eta_p), VScale(ev.lam, nu_p)),
         Hphi |-> bmat(Hphi_blocks(ev.t_reg, lamC2, gphi1))]

\* problem.eval(x) on the cached problem, by the solver or by any holder of the
\* problem
problem_eval(x) ==
    /\ efg.pc = "idle"
    /\ Lrelaxed_approx_problem # None
    /\ evaluated' = eval_result(Lrelaxed_approx_problem.eval, x)
    /\ UNCHANGED <<configVars, temp_x, JG_const, efgVars, Lrelaxed_approx_problem,
                   built, solve, ret>>


----------------------------------------------------------------------------
(* solve_Lrelaxed_approx and get_init_x *)

\* the status check left out: only an exception of the solver fails the call
solver_ok_unchecked(outcome) == outcome # "raised"

\* line 369: the solver's terminal status must be 'solved'
solver_ok(outcome) == outcome = "solved"

\* solve_Lrelaxed_approx(lam, g_corr, J_corr, init_data) up to the solver's
\* start (lines 347-366): the problem is constructed or fetched and, with
\* init_data, warm-started.  kind tells whether get_init_x made the call
\* (line 280: lam = 0, no corrections, no init_data).
solve_call(kind, lam, g_corr, J_corr, init_data) ==
    LET problem == constructed_problem(lam, g_corr, J_corr)
    IN  /\ efg.pc = "idle"
        /\ solve.pc = "idle"
        /\ Lrelaxed_approx_problem' =
              IF init_data # None THEN [problem EXCEPT !.warm = init_data]
              ELSE problem
        /\ built' = built_after(problem)
        /\ solve' = [pc |-> "solving", kind |-> kind, lam |-> lam,
                     problem |-> problem.id, solver_calls |-> 0,
                     interleaved |-> FALSE]
        /\ ret' = [op |-> "pending"]
        /\ UNCHANGED <<configVars, temp_x, JG_const, efgVars, evaluated>>

\* lines 367-373: solver.solve(problem), once, ending by raising or with a
\* terminal status; x is the solver's last iterate, at which it evaluated the
\* problem.  Anything but 'solved' leaves the call by an exception.
solver_solve(outcome, x) ==
    /\ solve.pc = "solving"
    /\ evaluated' = eval_result(Lrelaxed_approx_problem.eval, x)
    /\ IF solver_ok(outcome)
       THEN /\ solve' = [pc |-> "solved", kind |-> solve.kind, lam |-> solve.lam,
                         problem |-> solve.problem,
                         solver_calls |-> solve.solver_calls + 1,
                         interleaved |-> solve.interleaved,
                         outcome |-> outcome, x |-> x]
            /\ ret' = ret
       ELSE /\ solve' = [pc |-> "idle"]
            /\ ret' = [op |-> solve.kind, outcome |-> outcome,
                       raised |-> IF outcome = "raised" THEN "OptSolverError"
                                  ELSE "AssertionError",
                       solver_calls |-> solve.solver_calls + 1, x |-> NoVector]
    /\ UNCHANGED <<configVars, temp_x, JG_const, efgVars, Lrelaxed_approx_problem,
                   built>>

\* lines 398-408: x[:num_p+1] and gF_approx at the solution; JG_approx is
\* (C*gQ, -C + 1 - gamma) with C the sigmoid of sigma, kept as sigma and gQ
solve_values(x) ==
    LET np == net.num_p
        p == Slice(x, 0, np)
        t == x[np + 1]
        q == Slice(x, np + 1, np)
        Q == RAdd(RMul(Rat(1, 2), Dot(q, MatVec(net.H1, q))), Dot(net.g1, q))
        gQ == VScale(RInt(-1), VAdd(MatVec(net.H1, q), net.g1))
    IN  [x |-> Slice(x, 0, np + 1),
         gF_approx |-> VAdd(VAdd(MatVec(net.H0, p), net.g0), gQ)
                          \o <<RMul(parameters.t_reg, t)>>,
         JG_sigma |-> RDiv(RMul(parameters.smax_param, RSub(RSub(Q, Qmax), t)), Qref),
         JG_gQ |-> gQ]

\* lines 375-408, and lines 281-282 for get_init_x: with debug set the problem
\* is evaluated at the solution and the KKT checks run, kkt_ok telling whether
\* they pass; a failed check raises
solve_return(kkt_ok) ==
    LET debug == parameters.debug # RZero
        vals == solve_values(solve.x)
        x0 == Front(vals.x) \o <<RMul(parameters.t_min, Qref)>>
    IN  /\ solve.pc = "solved"
        /\ debug \/ kkt_ok
        /\ evaluated' = IF debug
                        THEN eval_result(Lrelaxed_approx_problem.eval, solve.x)
                        ELSE evaluated
        /\ solve' = [pc |-> "idle"]
        /\ ret' = IF debug /\ ~kkt_ok
                  THEN [op |-> solve.kind, outcome |-> solve.outcome,
                        raised |-> "AssertionError",
                        solver_calls |-> solve.solver_calls, x |-> NoVector]
                  ELSE [op |-> solve.kind, outcome |-> solve.outcome,
                        raised |-> "None", solver_calls |-> solve.solver_calls,
                        x |-> IF solve.kind = "get_init_x" THEN x0 ELSE vals.x,
                        gF_approx |-> vals.gF_approx, JG_sigma |-> vals.JG_sigma,
                        JG_gQ |-> vals.JG_gQ]
        /\ UNCHANGED <<configVars, temp_x, JG_const, efgVars,
                       Lrelaxed_approx_problem, built>>

\* solve_Lrelaxed_approx(lam, g_corr, J_corr, init_data=init_data)
solve_Lrelaxed_approx_call(lam, g_corr, J_corr, init_data) ==
    solve_call("solve_Lrelaxed_approx", lam, g_corr, J_corr, init_data)

\* get_init_x(): solve_Lrelaxed_approx(np.zeros(1), quiet=True)
get_init_x_call == solve_call("get_init_x", RZero, NoVector, NoVector, None)

----------------------------------------------------------------------------
(* eval_FG_approx and the projections *)

\* eval_FG_approx(x): F and gF; G and JG are the softplus of
\* sigma = smax_param*(Q-Qmax-t)/Qref and its derivative, kept as sigma
eval_FG_approx(x) ==
    LET p == Front(x)
        t == Last(x)
        phi0 == RAdd(RMul(Rat(1, 2), Dot(p, MatVec(net.H0, p))), Dot(net.g0, p))
        gphi0 == VAdd(MatVec(net.H0, p), net.g0)
        QgQ == eval_Q(p, net.Er, None)
    IN  /\ efg.pc = "idle"
        /\ solve.pc = "idle"
        /\ ret' = [op |-> "eval_FG_approx", x |-> x,
                   F |-> RAdd(RAdd(phi0, QgQ.Q),
                              RMul(RMul(Rat(1, 2), parameters.t_reg), RMul(t, t))),
                   gF |-> VAdd(gphi0, QgQ.gQ) \o <<RMul(parameters.t_reg, t)>>,
                   sigma |-> RDiv(RMul(parameters.smax_param,
                                       RSub(RSub(QgQ.Q, Qmax), t)), Qref)]
        /\ UNCHANGED <<configVars, temp_x, JG_const, efgVars, cacheVars>>

\* the lower bound left out:  np.minimum(v, hi)
clip_upper_only(v, lo, hi) == RMinimum(v, hi)

\* np.maximum(np.minimum(v, hi), lo)
clip(v, lo, hi) == RMaximum(RMinimum(v, hi), lo)

\* what project_x(x) returns
project_x_result(x) ==
    LET t_max == RMul(parameters.t_max, Qref)
        t_min == RMul(parameters.t_min, Qref)
    IN  ts_project_x(Front(x)) \o <<clip(Last(x), t_min, t_max)>>

\* what project_lam(lam) returns, lam a vector of size 1
project_lam_result(lam) ==
    [i \in 1..Len(lam) |-> clip(lam[i], RZero, parameters.lam_max)]

project_x(x) ==
    /\ efg.pc = "idle"
    /\ solve.pc = "idle"
    /\ ret' = [op |-> "project_x", x |-> x, out |-> project_x_result(x)]
    /\ UNCHANGED <<configVars, temp_x, JG_const, efgVars, cacheVars>>

project_lam(lam) ==
    /\ efg.pc = "idle"
    /\ solve.pc = "idle"
    /\ ret' = [op |-> "project_lam", lam |-> lam, out |-> project_lam_result(lam)]
    /\ UNCHANGED <<configVars, temp_x, JG_const, efgVars, cacheVars>>


----------------------------------------------------------------------------
(* SpecFG: the per-scenario evaluator under parameter changes *)

\* every dict over a subset of keys
ParamDicts(keys, vals) == UNION {Dicts(K, vals) : K \in SUBSET keys}

QrefsFG == {RInt(10)}
PsFG == {<<ROne, RInt(2)>>, <<RInt(4), RInt(4)>>}
TsFG == {Rat(-1, 2), RZero, ROne}
XsFG == {p \o <<t>> : p \in PsFG, t \in TsFG}
RsFG == {<<ROne>>, <<RInt(2)>>, <<RInt(3)>>}
ValsFG == [gamma |-> {Rat(19, 20), Rat(1, 2)}, Qfac |-> {Rat(4, 5), Rat(1, 2)},
           verbose |-> {ROne}]
DictsFG == ParamDicts({"gamma", "Qfac", "verbose"}, ValsFG)

InitFG == \E d \in DictsFG : \E q \in QrefsFG : Constructed(d, q)

SetParametersFG == \E d \in DictsFG : set_parameters(d)
EvalFG == \E x \in XsFG : \E w \in RsFG : eval_FG(x, w)

NextFG == SetParametersFG \/ EvalFG

SpecFG == InitFG /\ [][NextFG]_vars

\* the residual sigma = Q - Qmax - t of the last eval_FG call
RetSigma == RSub(RSub(ret.Q, Qmax), Last(ret.x))
RetIsFG == ret.op = "eval_FG"

(* C6: eval_FG returns G = sigma + (1-gamma)*t when sigma >= 0 and
   G = (1-gamma)*t when sigma <= 0 (so the branches agree at sigma = 0), where
   sigma = Q - Qmax - t; with Qmax = 8, gamma = 0.95, t = -0.5, Q = 9 it
   returns G = 1.475. *)
C6_G_hinge ==
    RetIsFG =>
        LET lin == RMul(RSub(ROne, parameters.gamma), Last(ret.x))
        IN  /\ RGe(RetSigma, RZero) => ret.G = <<RAdd(RetSigma, lin)>>
            /\ RLe(RetSigma, RZero) => ret.G = <<lin>>
            /\ (/\ Qmax = RInt(8)
                /\ parameters.gamma = Rat(19, 20)
                /\ Last(ret.x) = Rat(-1, 2)
                /\ ret.Q = RInt(9)) => ret.G = <<Rat(1475, 1000)>>

\* the spec's concrete example has been evaluated
C6_Witness ==
    /\ RetIsFG
    /\ Qmax = RInt(8) /\ parameters.gamma = Rat(19, 20)
    /\ Last(ret.x) = Rat(-1, 2) /\ ret.Q = RInt(9)
    /\ ret.G = <<Rat(59, 40)>>


(* C7: eval_FG returns JG = (gQ, -1 + (1-gamma)) whenever sigma >= 0 (the kink
   sigma = 0 included) and (0, ..., 0, 1-gamma) whenever sigma < 0, gamma being
   the instance's parameter, and no step alters JG_const. *)
C7_JG_branches ==
    /\ [](RetIsFG =>
            LET c == RSub(ROne, parameters.gamma)
            IN  /\ RGe(RetSigma, RZero) => ret.JG = ret.gQ \o <<RAdd(RInt(-1), c)>>
                /\ RLt(RetSigma, RZero) => ret.JG = VZeros(net.num_p) \o <<c>>)
    /\ [][JG_const' = JG_const]_vars


----------------------------------------------------------------------------
(* SpecEFG: Monte Carlo estimation, sequential and over the worker pool *)

XsEFG == {<<ROne, RInt(2), RZero>>, <<ROne, RInt(2), Rat(-1, 2)>>}
RsEFG == {<<ROne>>, <<RInt(3)>>}
SeedsEFG == {0, 7}
ValsEFG == [num_procs |-> {RInt(n) : n \in 1..MaxProcs},
            num_samples |-> {RInt(n) : n \in 0..MaxSamples}]
DictsEFG == ParamDicts({"num_procs", "num_samples"}, ValsEFG)

InitEFG ==
    \E d \in Dicts({"num_procs", "num_samples"}, ValsEFG) : Constructed(d, RInt(10))

SetParametersEFG == \E d \in DictsEFG : set_parameters(d)
EvalEFGSequentialCall ==
    \E x \in XsEFG : \E n \in 0..MaxSamples : \E seed \in SeedsEFG :
        eval_EFG_sequential_call(x, n, seed)
EvalEFGCall == \E x \in XsEFG : eval_EFG_call(x)
SequentialBegin == \E i \in DOMAIN runs : sequential_begin(i)
LoopSample == \E i \in DOMAIN runs : \E r \in RsEFG : loop_sample(i, r)
LoopUpdate == \E i \in DOMAIN runs : loop_update(i)

NextEFG ==
    \/ SetParametersEFG
    \/ EvalEFGSequentialCall
    \/ EvalEFGCall
    \/ SequentialBegin
    \/ LoopSample
    \/ LoopUpdate
    \/ eval_EFG_sequential_return
    \/ eval_EFG_return

SpecEFG == InitEFG /\ [][NextEFG]_vars

Started == {i \in DOMAIN runs : runs[i].pc # "none"}
ParallelRunning == efg.pc = "running" /\ efg.kind = "eval_EFG"

(* C3: eval_EFG starts exactly num_procs runs of eval_EFG_sequential, run i
   with seed i (so the seeds are pairwise distinct) on ceil(num_samples /
   num_procs) samples, and every returned quantity is the sum of the
   per-worker means divided by num_procs. *)
C3_workers_seeds_mean ==
    LET np == parameters.num_procs[1]
        ns == parameters.num_samples[1]
    IN  /\ ParallelRunning =>
            /\ Started = 0..(np - 1)
            /\ \A i \in Started :
                  /\ runs[i].seed = i
                  /\ runs[i].num * np >= ns
                  /\ (runs[i].num - 1) * np < ns
            /\ \A i, j \in Started : i # j => runs[i].seed # runs[j].seed
        /\ ret.op = "eval_EFG" =>
            /\ Len(ret.workers) = np
            /\ RMul(ret.F, RInt(np)) = RSum([w \in 1..np |-> ret.workers[w].F])
            /\ RMul(ret.ind, RInt(np)) = RSum([w \in 1..np |-> ret.workers[w].ind])
            /\ \A j \in 1..Len(ret.x) :
                  /\ RMul(ret.gF[j], RInt(np))
                        = RSum([w \in 1..np |-> ret.workers[w].gF[j]])
                  /\ RMul(ret.JG[j], RInt(np))
                        = RSum([w \in 1..np |-> ret.workers[w].JG[j]])
            /\ RMul(ret.G[1], RInt(np)) = RSum([w \in 1..np |-> ret.workers[w].G[1]])

\* eval_EFG returned with two workers whose means differ, the sample count
\* not a multiple of num_procs
C3_Witness ==
    /\ ret.op = "eval_EFG"
    /\ ret.num_procs = 2
    /\ ret.num_samples = 3
    /\ ret.workers[1].num = 2
    /\ ret.workers[1].F # ret.workers[2].F

\* the bound a run last wrote into its subproblem: its latest sample, or Er
\* before the first
OwnBound(i) == IF runs[i].r = <<>> THEN net.Er ELSE runs[i].r

(* C4: during a parallel eval_EFG every worker operates on its own recourse
   subproblem: in every interleaving the renewable-bound slice a worker's
   evaluation sees is the one that worker wrote, never another worker's. *)
C4_private_subproblem ==
    ParallelRunning =>
        \A i \in Started :
            runs[i].pc \in {"loop", "sampled", "done"} =>
                RSlice(recourse[SpaceOf(i)].u) = OwnBound(i)

\* two workers are between their write and their evaluation, with different
\* samples
C4_Witness ==
    /\ ParallelRunning
    /\ runs[0].pc = "sampled"
    /\ runs[1].pc = "sampled"
    /\ runs[0].r # runs[1].r

InLoop == {"loop", "sampled"}

\* p1 and p2 agree on A, b, l and on every entry of u outside the
\* renewable-bound slice
SameOutsideSlice(p1, p2) ==
    LET lo == net.num_p + net.num_w
    IN  /\ p1.A = p2.A
        /\ p1.b = p2.b
        /\ p1.l = p2.l
        /\ Len(p1.u) = Len(p2.u)
        /\ \A j \in 1..Len(p1.u) :
              (j <= lo \/ j > lo + net.num_r) => p1.u[j] = p2.u[j]

(* C11: a run of eval_EFG_sequential obtains its recourse subproblem once,
   before the loop; every per-sample evaluation sees in the renewable-bound
   slice the r drawn for that sample; and no step of the loop changes A, b,
   l or an entry of u outside the slice. *)
C11_bound_slice_per_sample ==
    /\ [](\A i \in Started :
            runs[i].pc \in InLoop \cup {"done"} =>
                /\ runs[i].problems = 1
                /\ \A k \in 1..Len(runs[i].hist) :
                      runs[i].hist[k].bound = runs[i].hist[k].r)
    /\ [][\A i \in DOMAIN runs :
            (runs[i].pc \in InLoop /\ runs'[i].pc \in InLoop \cup {"done"}) =>
                SameOutsideSlice(recourse[SpaceOf(i)], recourse'[SpaceOf(i)])]_vars

\* a run has evaluated two consecutive samples with different r, the second
\* overwriting the bound of the first
C11_Witness ==
    \E i \in Started :
        /\ runs[i].pc \in InLoop \cup {"done"}
        /\ Len(runs[i].hist) >= 2
        /\ runs[i].hist[1].r # runs[i].hist[2].r
        /\ runs[i].hist[2].bound = runs[i].hist[2].r

RunMeansOK(run) ==
    LET k == run.i
        h == run.hist
    IN  /\ Len(h) = k
        /\ k >= 1 =>
            /\ RMul(run.F, RInt(k)) = RSum([j \in 1..k |-> h[j].F])
            /\ RMul(run.ind, RInt(k)) = RSum([j \in 1..k |-> h[j].ind])
            /\ RMul(run.G[1], RInt(k)) = RSum([j \in 1..k |-> h[j].G[1]])
            /\ \A c \in 1..Len(run.gF) :
                  /\ RMul(run.gF[c], RInt(k)) = RSum([j \in 1..k |-> h[j].gF[c]])
                  /\ RMul(run.JG[c], RInt(k)) = RSum([j \in 1..k |-> h[j].JG[c]])

(* C5: in eval_EFG_sequential, after the k-th iteration of the sampling loop
   each of F, gF, G, JG and ind is the arithmetic mean of the first k
   per-sample values of eval_FG; with num_samples = 1 the result is the
   eval_FG result for the one sampled scenario. *)
C5_running_means ==
    /\ \A i \in Started :
          runs[i].pc \in {"loop", "sampled", "done"} => RunMeansOK(runs[i])
    /\ (ret.op = "eval_EFG_sequential" /\ ret.num_samples = 1) =>
          LET one == eval_FG_result(ret.x, ret.hist[1].r, None)
          IN  /\ ret.F = one.F
              /\ ret.gF = one.gF
              /\ ret.G = one.G
              /\ ret.JG = one.JG
              /\ ret.ind = one.ind

\* a run has averaged three samples that are not all alike
C5_Witness ==
    \E i \in Started :
        /\ runs[i].pc = "done"
        /\ runs[i].i = 3
        /\ runs[i].hist[1].F # runs[i].hist[2].F
        /\ runs[i].hist[2].JG # runs[i].hist[3].JG


----------------------------------------------------------------------------
(* SpecH: the objective evaluator of the cached problem *)

\* the solver's variable vector (p, t, q, w, s, y, z) with y = p + q
FullX(p, t, q) ==
    p \o <<t>> \o q \o VZeros(net.num_w) \o VZeros(net.num_r) \o VAdd(p, q)
      \o VZeros(net.num_br)

QsH == {<<RZero, RZero>>, <<Rat(-1, 2), Rat(-1, 2)>>, <<ROne, RZero>>,
        <<Rat(-1, 2), RZero>>}
XsH == {FullX(<<ROne, RInt(2)>>, t, q) : t \in {RZero, Rat(-1, 2)}, q \in QsH}
LamsH == {RZero, ROne, RInt(-1)}
CorrsH == {NoVector, <<ROne, RZero, Rat(1, 2)>>}
ValsH == [t_reg |-> {RZero, Rat(1, 100000000)},
          smax_param |-> {RInt(100), RInt(10000)}]
DictsH == ParamDicts({"t_reg", "smax_param"}, ValsH)

InitH == \E d \in DictsH : Constructed(d, RInt(10))

SetParametersH == \E d \in DictsH : set_parameters(d)
ConstructH ==
    \E lam \in LamsH : \E c \in CorrsH :
        construct_Lrelaxed_approx_problem(lam, c, c)
ProblemEvalH == \E x \in XsH : problem_eval(x)

NextH == SetParametersH \/ ConstructH \/ ProblemEvalH

SpecH == InitH /\ [][NextH]_vars

(* C8: the Hessian Hphi the Lagrangian objective evaluator assembles over
   (p, t, q, w, s, y, z) has no stored entry with row index < column index, so
   the assertion row >= col holds; its only off-diagonal block is the t-q
   coupling at block row q, block column t. *)
C8_Hphi_lower_triangular ==
    evaluated # None =>
        LET np == net.num_p
        IN  /\ \A e \in evaluated.Hphi : e[1] >= e[2]
            /\ \A e \in evaluated.Hphi :
                  \/ e[1] < np /\ e[2] < np
                  \/ e[1] = np /\ e[2] = np
                  \/ e[1] \in (np + 1)..(2 * np) /\ e[2] \in np..(2 * np)

\* an evaluation with lam*C2 nonzero and both components of gphi1 nonzero: the
\* t-q coupling and the off-diagonal q-q entry are populated
C8_Witness ==
    /\ evaluated # None
    /\ <<net.num_p + 1, net.num_p>> \in evaluated.Hphi
    /\ <<net.num_p + 2, net.num_p>> \in evaluated.Hphi
    /\ <<net.num_p + 2, net.num_p + 1>> \in evaluated.Hphi


----------------------------------------------------------------------------
(* SpecL: the cached problem under construct, solve and parameter changes *)

LamsL == {RZero, ROne}
CorrsL == {NoVector, <<ROne, RZero, Rat(1, 2)>>}
XsL == {FullX(<<ROne, RInt(2)>>, RZero, <<ROne, RZero>>),
        FullX(<<RInt(2), RInt(2)>>, Rat(-1, 2), <<Rat(-1, 2), RZero>>)}
InitDataL == {None, [x |-> "x0", lam |-> "lam0", mu |-> "mu0", pi |-> "pi0"]}
OutcomesL == {"solved", "raised", "error", "unknown"}
ValsL == [t_min |-> {Rat(-1, 10), Rat(-1, 5)}, debug |-> {RZero, ROne}]
DictsL == ParamDicts({"t_min", "debug"}, ValsL)

InitL == \E d \in DictsL : Constructed(d, RInt(10))

SetParametersL == \E d \in DictsL : set_parameters(d)
ConstructL ==
    \E lam \in LamsL : \E c \in CorrsL :
        construct_Lrelaxed_approx_problem(lam, c, c)
SolveCallL ==
    \E lam \in LamsL : \E c \in CorrsL : \E d \in InitDataL :
        solve_Lrelaxed_approx_call(lam, c, c, d)
SolverSolveL == \E o \in OutcomesL : \E x \in XsL : solver_solve(o, x)
SolveReturnL == \E ok \in BOOLEAN : solve_return(ok)

NextL ==
    \/ SetParametersL
    \/ ConstructL
    \/ SolveCallL
    \/ get_init_x_call
    \/ SolverSolveL
    \/ SolveReturnL

SpecL == InitL /\ [][NextL]_vars

(* C1: over any sequence of construct_Lrelaxed_approx_problem calls on one
   instance, with any lam, g_corr and J_corr, the structural system (A, b, l,
   u) is built only on the first call, while Lrelaxed_approx_problem is None;
   every later call returns that same cached problem with the same A, b, l,
   u, and only its eval differs. *)
C1_structure_built_once ==
    /\ Len(built) <= 1
    /\ Lrelaxed_approx_problem = None <=> built = <<>>
    /\ Lrelaxed_approx_problem # None =>
          StructureOf(Lrelaxed_approx_problem) = built[1]
    /\ ret.op = "construct_Lrelaxed_approx_problem" =>
          /\ StructureOf(ret.problem) = built[1]
          /\ ret.problem.eval.lam = ret.lam

\* a later construct call, made with another lam after t_min was changed,
\* returned the problem built before the change
C1_Witness ==
    /\ ret.op = "construct_Lrelaxed_approx_problem"
    /\ ret.problem.l[net.num_p + 1] # RMul(parameters.t_min, Qref)
    /\ ret.lam = ROne
    /\ evaluated # None

SolveOps == {"solve_Lrelaxed_approx", "get_init_x"}

(* C2: solve_Lrelaxed_approx invokes the external solver exactly once per
   call; if the solver raises or ends with a status other than 'solved', the
   call fails by propagating the error, without a retry and without returning
   (x, gF_approx, JG_approx, results). *)
C2_single_attempt_fail_fast ==
    /\ solve.pc = "solving" => solve.solver_calls = 0
    /\ solve.pc = "solved" => solve.solver_calls = 1 /\ solve.outcome = "solved"
    /\ ret.op \in SolveOps =>
          /\ ret.solver_calls = 1
          /\ ret.outcome # "solved" => ret.raised # "None" /\ ret.x = NoVector
          /\ ret.raised = "None" => ret.outcome = "solved" /\ ret.x # NoVector

\* a call has failed on a solver that ended with status 'unknown'
C2_Witness ==
    /\ ret.op = "solve_Lrelaxed_approx"
    /\ ret.outcome = "unknown"
    /\ ret.raised = "AssertionError"
    /\ ret.solver_calls = 1

\* the t that project_x leaves in place of t
ProjectedT(t) == Last(project_x_result(net.p_min \o <<t>>))

(* C12: whenever construct_Lrelaxed_approx_problem has returned, after any
   earlier set_parameters, construct and solve calls, the bounds on t in the
   returned problem are l_t = t_min*Qref and u_t = t_max*Qref for the current
   t_min and t_max, the interval project_x clips t to. *)
C12_t_bounds_current ==
    ret.op = "construct_Lrelaxed_approx_problem" =>
        LET l_t == ret.problem.l[net.num_p + 1]
            u_t == ret.problem.u[net.num_p + 1]
        IN  /\ l_t = RMul(parameters.t_min, Qref)
            /\ u_t = RMul(parameters.t_max, Qref)
            /\ ProjectedT(RSub(l_t, ROne)) = l_t
            /\ ProjectedT(RAdd(u_t, ROne)) = u_t

ConstructReturned == ret.op = "construct_Lrelaxed_approx_problem"

\* the cached problem holds one evaluator; every handle is that one object;
\* a solve no other construct call has cut into has its own lam bound, and
\* its solver evaluated with it
OneEvaluator ==
    Lrelaxed_approx_problem # None =>
        /\ Lrelaxed_approx_problem.eval # None
        /\ ConstructReturned => ret.problem.id = Lrelaxed_approx_problem.id
        /\ solve.pc # "idle" => solve.problem = Lrelaxed_approx_problem.id
        /\ (solve.pc = "solving" /\ ~solve.interleaved) =>
              Lrelaxed_approx_problem.eval.lam = solve.lam
        /\ (solve.pc = "solved" /\ ~solve.interleaved) =>
              evaluated.closure.lam = solve.lam

\* the evaluator changes only by a construct step, direct or of a solve, to
\* the lam of that call; every evaluation runs the evaluator bound just then
BoundByLatestConstruct ==
    /\ (/\ Lrelaxed_approx_problem # None
        /\ Lrelaxed_approx_problem'.eval # Lrelaxed_approx_problem.eval) =>
            Lrelaxed_approx_problem'.eval.lam =
                IF ret'.op = "construct_Lrelaxed_approx_problem"
                THEN ret'.lam ELSE solve'.lam
    /\ evaluated' # evaluated =>
            evaluated'.closure = Lrelaxed_approx_problem.eval

(* C13: the cached Lagrangian problem carries one objective evaluator at a
   time, the one bound by the most recent construct step; all handles are the
   same object, so an evaluation through a handle obtained with lam1 after a
   construct call with lam2 uses lam2; a solve_Lrelaxed_approx is sure to
   evaluate with its own lam when no other construct or solve call comes
   between its construct step and the end of its solve. *)
C13_single_evaluator ==
    /\ []OneEvaluator
    /\ [][BoundByLatestConstruct]_vars

\* a construct call with lam = 1 came between the construct step of a solve
\* with lam = 0 and its solver run, which then evaluated with lam = 1
C13_Witness ==
    /\ solve.pc = "solved"
    /\ solve.interleaved
    /\ solve.lam = RZero
    /\ ConstructReturned
    /\ ret.lam = ROne
    /\ ret.problem.id = solve.problem
    /\ evaluated.closure.lam = ROne


----------------------------------------------------------------------------
(* SpecP: the projections under parameter changes *)

QrefsP == {RInt(10), RInt(20)}
PsP == {<<a, b>> : a \in {RInt(-1), RInt(2)}, b \in {RInt(4), RInt(5)}}
TsP == {RInt(-3), RInt(-2), RInt(-1), Rat(-1, 2), RZero, Rat(1, 2), RInt(2)}
XsP == {p \o <<t>> : p \in PsP, t \in TsP}
LamsP == {<<RInt(-1)>>, <<RZero>>, <<Rat(1, 2)>>, <<ROne>>, <<RInt(50)>>,
          <<RInt(100)>>, <<RInt(150)>>}
\* boxes that are not empty: lam_max >= 0 and t_min <= t_max
ValsP == [lam_max |-> {RInt(100), ROne, RZero},
          t_min |-> {Rat(-1, 10), Rat(-1, 5)},
          t_max |-> {RZero, Rat(1, 10)}]
DictsP == ParamDicts({"lam_max", "t_min", "t_max"}, ValsP)

InitP == \E d \in DictsP : \E q \in QrefsP : Constructed(d, q)

SetParametersP == \E d \in DictsP : set_parameters(d)
ProjectX == \E x \in XsP : project_x(x)
ProjectLam == \E lam \in LamsP : project_lam(lam)

NextP == SetParametersP \/ ProjectX \/ ProjectLam

SpecP == InitP /\ [][NextP]_vars

InBox(v, lo, hi) == RLe(lo, v) /\ RLe(v, hi)
FeasibleLam(lam) == \A i \in 1..Len(lam) : InBox(lam[i], RZero, parameters.lam_max)
FeasibleX(x) ==
    /\ \A i \in 1..net.num_p : InBox(x[i], net.p_min[i], net.p_max[i])
    /\ InBox(Last(x), RMul(parameters.t_min, Qref), RMul(parameters.t_max, Qref))

(* C9: project_lam returns a value in [0, lam_max] and project_x returns
   (p, t) with p in [p_min, p_max] and t in [t_min*Qref, t_max*Qref]; both
   leave a feasible input unchanged and are idempotent. *)
C9_projections ==
    /\ ret.op = "project_lam" =>
          /\ FeasibleLam(ret.out)
          /\ FeasibleLam(ret.lam) => ret.out = ret.lam
          /\ project_lam_result(ret.out) = ret.out
    /\ ret.op = "project_x" =>
          /\ Len(ret.out) = net.num_p + 1
          /\ FeasibleX(ret.out)
          /\ FeasibleX(ret.x) => ret.out = ret.x
          /\ project_x_result(ret.out) = ret.out

\* a point with p above p_max and t below t_min*Qref has been projected
C9_Witness ==
    /\ ret.op = "project_x"
    /\ RLt(net.p_max[2], ret.x[2])
    /\ RLt(Last(ret.x), RMul(parameters.t_min, Qref))
    /\ ret.out # ret.x
    /\ Last(ret.out) = RMul(parameters.t_min, Qref)

----------------------------------------------------------------------------
(* Spec: every public operation of the instance, in any order *)

XsAll == {<<ROne, RInt(2), RZero>>}
RsAll == {<<ROne>>, <<RInt(3)>>}
ValsAll == [Qfac |-> {Rat(4, 5), Rat(1, 2)}, num_procs |-> {RInt(2)},
            num_samples |-> {RInt(2)}]
DictsAll == ParamDicts({"Qfac"}, ValsAll)

Init ==
    \E d \in Dicts({"Qfac", "num_procs", "num_samples"}, ValsAll) :
        \E q \in {RInt(10), RInt(20)} : Constructed(d, q)

SetParameters == \E d \in DictsAll : set_parameters(d)
EvalFGAll == \E x \in XsAll : \E w \in RsAll : eval_FG(x, w)
EvalFGApprox == \E x \in XsAll : eval_FG_approx(x)
EvalEFGSequentialCallAll == \E x \in XsAll : eval_EFG_sequential_call(x, 1, 0)
EvalEFGCallAll == \E x \in XsAll : eval_EFG_call(x)
LoopSampleAll == \E i \in DOMAIN runs : \E r \in RsAll : loop_sample(i, r)
ProjectXAll == \E x \in {<<RInt(5), RInt(2), RInt(-3)>>} : project_x(x)
ProjectLamAll == \E lam \in {<<RInt(150)>>} : project_lam(lam)
ConstructAll == construct_Lrelaxed_approx_problem(ROne, NoVector, NoVector)
SolveCallAll == solve_Lrelaxed_approx_call(ROne, NoVector, NoVector, None)
SolverSolveAll ==
    \E o \in {"solved", "error"} :
        solver_solve(o, FullX(<<ROne, RInt(2)>>, RZero, <<ROne, RZero>>))
SolveReturnAll == solve_return(TRUE)

Next ==
    \/ SetParameters
    \/ EvalFGAll
    \/ EvalFGApprox
    \/ EvalEFGSequentialCallAll
    \/ EvalEFGCallAll
    \/ SequentialBegin
    \/ LoopSampleAll
    \/ LoopUpdate
    \/ eval_EFG_sequential_return
    \/ eval_EFG_return
    \/ ProjectXAll
    \/ ProjectLamAll
    \/ get_init_x_call
    \/ ConstructAll
    \/ SolveCallAll
    \/ SolverSolveAll
    \/ SolveReturnAll

Spec == Init /\ [][Next]_vars

(* C10: Qref and Qmax are assigned once, in the constructor, with
   Qmax = Qfac*Qref, and no public operation (set_parameters, eval_FG,
   eval_FG_approx, eval_EFG_sequential, eval_EFG, project_x, project_lam,
   get_init_x, construct_Lrelaxed_approx_problem, solve_Lrelaxed_approx), in
   any order and any number of times, changes either value afterwards. *)
C10_Qref_Qmax_fixed ==
    /\ Qmax = RMul(parameters.Qfac, Qref)
    /\ [][Qref' = Qref /\ Qmax' = Qmax]_vars

\* Qfac has been changed after construction and operations have run since:
\* Qmax is still the constructor's
C10_Witness ==
    /\ Qmax # RMul(parameters.Qfac, Qref)
    /\ ret.op = "eval_EFG"
    /\ Lrelaxed_approx_problem # None
    /\ evaluated # None


====
